---- MODULE Spec2Model ----
(***************************************************************************)
(* Model of usda/domain.py: the conversion of parsed JSON response data    *)
(* into Measure, Nutrient, Food, FoodReport and NutrientReport objects.    *)
(*                                                                         *)
(* A JSON / Python scalar is a tagged record [t, i, s]:                    *)
(*   t = "int"   : the integer i                                           *)
(*   t = "float" : the float i/10 (floats are kept in tenths)              *)
(*   t = "str"   : the string whose characters are the sequence s          *)
(*   t = "null"  : JSON null / Python None                                 *)
(*   t = "list"  : the empty JSON list []                                  *)
(* A JSON object is a function from its keys (strings) to values; a JSON   *)
(* array is a sequence.  A raised exception is an Error record.            *)
(***************************************************************************)
EXTENDS Integers, Sequences, FiniteSets, TLC

VARIABLES op, arg, result, pc, nextOid

vars == <<op, arg, result, pc, nextOid>>

(***************************************************************************)
(* Bounds of the explored inputs.                                          *)
(***************************************************************************)
MaxMeasures == 2
MaxNutrients == 2
MaxFoods == 2

(***************************************************************************)
(* Scalars.                                                                *)
(***************************************************************************)
PyInt(n) == [t |-> "int", i |-> n, s |-> <<>>]
PyFloat(tenths) == [t |-> "float", i |-> tenths, s |-> <<>>]
PyStr(chars) == [t |-> "str", i |-> 0, s |-> chars]
PyNone == [t |-> "null", i |-> 0, s |-> <<>>]
PyEmptyList == [t |-> "list", i |-> 0, s |-> <<>>]

Digits == <<"0", "1", "2", "3", "4", "5", "6", "7", "8", "9">>

IsDigit(c) == \E k \in 1..10 : Digits[k] = c

DigitVal(c) == (CHOOSE k \in 1..10 : Digits[k] = c) - 1

RECURSIVE DigitsVal(_)
DigitsVal(s) ==
    IF Len(s) = 0 THEN 0
    ELSE 10 * DigitsVal(SubSeq(s, 1, Len(s) - 1)) + DigitVal(s[Len(s)])

RECURSIVE NatToStr(_)
NatToStr(n) ==
    IF n < 10 THEN <<Digits[n + 1]>>
    ELSE Append(NatToStr(n \div 10), Digits[(n % 10) + 1])

AllDigits(s) == \A k \in 1..Len(s) : IsDigit(s[k])

DotPositions(s) == {k \in 1..Len(s) : s[k] = "."}

\* int(x): an int is kept, a float is truncated, a string must be a
\* non-empty run of decimal digits; None and lists raise TypeError.
CanInt(v) ==
    \/ v.t \in {"int", "float"}
    \/ v.t = "str" /\ Len(v.s) > 0 /\ AllDigits(v.s)

IntOf(v) ==
    CASE v.t = "int" -> PyInt(v.i)
      [] v.t = "float" -> PyInt(v.i \div 10)
      [] v.t = "str" -> PyInt(DigitsVal(v.s))

\* float(x): numbers are converted, a string must be digits with at most one
\* decimal point and at least one digit; None and lists raise TypeError.
CanFloat(v) ==
    \/ v.t \in {"int", "float"}
    \/ /\ v.t = "str"
       /\ \A k \in 1..Len(v.s) : IsDigit(v.s[k]) \/ v.s[k] = "."
       /\ Cardinality(DotPositions(v.s)) <= 1
       /\ \E k \in 1..Len(v.s) : IsDigit(v.s[k])

StrTenths(s) ==
    IF DotPositions(s) = {} THEN 10 * DigitsVal(s)
    ELSE LET d == CHOOSE k \in DotPositions(s) : TRUE
             whole == SubSeq(s, 1, d - 1)
             frac == SubSeq(s, d + 1, Len(s))
         IN 10 * DigitsVal(whole)
              + (IF Len(frac) = 0 THEN 0 ELSE DigitVal(frac[1]))

FloatOf(v) ==
    CASE v.t = "int" -> PyFloat(10 * v.i)
      [] v.t = "float" -> PyFloat(v.i)
      [] v.t = "str" -> PyFloat(StrTenths(v.s))

\* str(x) never fails.
StrOf(v) ==
    CASE v.t = "str" -> PyStr(v.s)
      [] v.t = "int" -> PyStr(NatToStr(v.i))
      [] v.t = "float" ->
            PyStr(NatToStr(v.i \div 10) \o <<".">> \o NatToStr(v.i % 10))
      [] v.t = "null" -> PyStr(<<"N", "o", "n", "e">>)
      [] v.t = "list" -> PyStr(<<"[", "]">>)

(***************************************************************************)
(* Exceptions: KeyError is MissingField, ValueError/TypeError raised by a  *)
(* coercion is TypeCoercion, AssertionError is TypeInvariant.              *)
(***************************************************************************)
Err(kind) == [cls |-> "Error", kind |-> kind]

IsErr(x) == x.cls = "Error"

AnyErr(rs) == \E k \in 1..Len(rs) : IsErr(rs[k])

\* the exception raised first while a list is built left to right
FirstErr(rs) == rs[CHOOSE k \in 1..Len(rs) :
                      IsErr(rs[k]) /\ \A j \in 1..(k - 1) : ~IsErr(rs[j])]

Has(d, k) == k \in DOMAIN d

HasAll(d, ks) == ks \subseteq DOMAIN d

isinstance(o, c) == o.cls = c

(***************************************************************************)
(* Measure                                                                 *)
(***************************************************************************)
\* faulty variant: value is taken from quantity
Measure_init_value_from_quantity(quantity, gram_equivalent, label, value) ==
    IF ~CanFloat(quantity) \/ ~CanFloat(gram_equivalent) \/ ~CanFloat(value)
    THEN Err("TypeCoercion")
    ELSE [cls |-> "Measure",
          quantity |-> FloatOf(quantity),
          gram_equivalent |-> FloatOf(gram_equivalent),
          label |-> StrOf(label),
          value |-> FloatOf(quantity)]

Measure_init(quantity, gram_equivalent, label, value) ==
    IF ~CanFloat(quantity) \/ ~CanFloat(gram_equivalent) \/ ~CanFloat(value)
    THEN Err("TypeCoercion")
    ELSE [cls |-> "Measure",
          quantity |-> FloatOf(quantity),
          gram_equivalent |-> FloatOf(gram_equivalent),
          label |-> StrOf(label),
          value |-> FloatOf(value)]

\* faulty variant: eqv is read with a default, as response_data.get("eqv", 0)
Measure_from_response_data_eqv_default(response_data) ==
    IF ~HasAll(response_data, {"qty", "label", "value"})
    THEN Err("MissingField")
    ELSE Measure_init(response_data["qty"],
                      IF Has(response_data, "eqv")
                      THEN response_data["eqv"] ELSE PyInt(0),
                      response_data["label"], response_data["value"])

Measure_from_response_data(response_data) ==
    IF ~HasAll(response_data, {"qty", "eqv", "label", "value"})
    THEN Err("MissingField")
    ELSE Measure_init(response_data["qty"], response_data["eqv"],
                      response_data["label"], response_data["value"])

(***************************************************************************)
(* Nutrient                                                                *)
(***************************************************************************)
OptStr(v) == IF v # PyNone THEN StrOf(v) ELSE PyNone

Nutrient_init(id, name, group, unit, value, measures) ==
    IF ~CanInt(id) \/ (value # PyNone /\ ~CanFloat(value))
    THEN Err("TypeCoercion")
    ELSE [cls |-> "Nutrient",
          id |-> IntOf(id),
          name |-> StrOf(name),
          group |-> OptStr(group),
          unit |-> OptStr(unit),
          value |-> IF value # PyNone THEN FloatOf(value) ELSE PyNone,
          measures |-> measures]

Nutrient_from_response_data(response_data) ==
    IF ~HasAll(response_data, {"id", "name"})
    THEN Err("MissingField")
    ELSE Nutrient_init(response_data["id"], response_data["name"],
                       PyNone, PyNone, PyNone, PyNone)

(***************************************************************************)
(* Food.  The class defines neither __eq__ nor __hash__, so a Food is      *)
(* equal only to itself: oid is the identity of the allocated object.      *)
(***************************************************************************)
Food_init(id, name, oid) ==
    IF ~CanInt(id) THEN Err("TypeCoercion")
    ELSE [cls |-> "Food", id |-> IntOf(id), name |-> StrOf(name),
          oid |-> oid]

\* faulty variant: ndbno is preferred to id
Food_from_response_data_ndbno_first(response_data, oid) ==
    IF ~Has(response_data, "id") /\ ~Has(response_data, "ndbno")
    THEN Err("MissingField")
    ELSE IF ~Has(response_data, "name") THEN Err("MissingField")
    ELSE Food_init(IF Has(response_data, "ndbno")
                   THEN response_data["ndbno"]
                   ELSE response_data["id"],
                   response_data["name"], oid)

Food_from_response_data(response_data, oid) ==
    IF ~Has(response_data, "id") /\ ~Has(response_data, "ndbno")
    THEN Err("MissingField")
    ELSE IF ~Has(response_data, "name") THEN Err("MissingField")
    ELSE Food_init(IF Has(response_data, "id")
                   THEN response_data["id"]
                   ELSE response_data["ndbno"],
                   response_data["name"], oid)

\* faulty variant: __eq__/__hash__ defined on id and name
Food_eq_by_value(a, b) == a.id = b.id /\ a.name = b.name

Food_eq(a, b) == a.oid = b.oid

(***************************************************************************)
(* FoodReport                                                              *)
(***************************************************************************)
FoodReport_get_measures(raw_measures) ==
    [k \in 1..Len(raw_measures) |->
        Measure_from_response_data(raw_measures[k])]

NutrientKeys == {"nutrient_id", "name", "group", "unit", "value", "measures"}

\* one element of the list comprehension of _get_nutrients: the six keys
\* are read, the measures are built, then Nutrient.__init__ runs
FoodReport_get_nutrient(raw_nutrient) ==
    IF ~HasAll(raw_nutrient, NutrientKeys) THEN Err("MissingField")
    ELSE LET measures == FoodReport_get_measures(raw_nutrient["measures"])
         IN IF AnyErr(measures) THEN FirstErr(measures)
            ELSE Nutrient_init(raw_nutrient["nutrient_id"],
                               raw_nutrient["name"],
                               raw_nutrient["group"],
                               raw_nutrient["unit"],
                               raw_nutrient["value"],
                               measures)

\* faulty variant: the nutrients come out in reverse order
FoodReport_get_nutrients_reversed(raw_nutrients) ==
    [k \in 1..Len(raw_nutrients) |->
        FoodReport_get_nutrient(raw_nutrients[Len(raw_nutrients) + 1 - k])]

FoodReport_get_nutrients(raw_nutrients) ==
    [k \in 1..Len(raw_nutrients) |->
        FoodReport_get_nutrient(raw_nutrients[k])]

FoodReport_init(food, nutrients, report_type, foot_notes, food_group) ==
    IF ~isinstance(food, "Food") THEN Err("TypeInvariant")
    ELSE [cls |-> "FoodReport",
          food |-> food,
          nutrients |-> nutrients,
          report_type |-> StrOf(report_type),
          foot_notes |-> foot_notes,
          food_group |-> OptStr(food_group)]

Basic == PyStr(<<"B", "a", "s", "i", "c">>)

Statistics == PyStr(<<"S", "t", "a", "t", "i", "s", "t", "i", "c", "s">>)

\* faulty variant: type == "Basic" or "Statistics", which is always true
NoFoodGroup_always(type) == TRUE

\* faulty variant: only "Basic" is exempt from fg
NoFoodGroup_basic_only(type) == type = Basic

\* type == "Basic" or type == "Statistics"
NoFoodGroup(type) == type = Basic \/ type = Statistics

FoodReport_from_response_data(response_data, oid) ==
    IF ~Has(response_data, "report") THEN Err("MissingField")
    ELSE LET report == response_data["report"] IN
    IF ~Has(report, "type") THEN Err("MissingField")
    ELSE LET type == report["type"] IN
    IF ~Has(report, "food") THEN Err("MissingField")
    ELSE LET food == report["food"] IN
    IF ~NoFoodGroup(type) /\ ~Has(food, "fg") THEN Err("MissingField")
    ELSE LET food_group == IF NoFoodGroup(type) THEN PyNone ELSE food["fg"]
             the_food == Food_from_response_data(food, oid) IN
    IF IsErr(the_food) THEN the_food
    ELSE IF ~Has(food, "nutrients") THEN Err("MissingField")
    ELSE LET nutrients == FoodReport_get_nutrients(food["nutrients"]) IN
    IF AnyErr(nutrients) THEN FirstErr(nutrients)
    ELSE IF ~Has(report, "footnotes") THEN Err("MissingField")
    ELSE FoodReport_init(the_food, nutrients, report["type"],
                         report["footnotes"], food_group)

(***************************************************************************)
(* NutrientReport                                                          *)
(***************************************************************************)
\* faulty variant: only the keys are checked
NutrientReport_check_keys_only(foods) ==
    \A k \in 1..Len(foods) : isinstance(foods[k].key, "Food")

\* all(isinstance(food, Food) and all(isinstance(nutrient, Nutrient) ...))
\* over the items of the mapping, kept as a sequence of [key, value] items
NutrientReport_check(foods) ==
    \A k \in 1..Len(foods) :
        /\ isinstance(foods[k].key, "Food")
        /\ \A j \in 1..Len(foods[k].value) :
              isinstance(foods[k].value[j], "Nutrient")

NutrientReport_init(foods) ==
    IF ~NutrientReport_check(foods) THEN Err("TypeInvariant")
    ELSE [cls |-> "NutrientReport", foods |-> foods]

\* d[key] = value of a dict keyed by objects compared with Food_eq
DictPut(items, key, value) ==
    IF \E k \in 1..Len(items) : Food_eq(items[k].key, key)
    THEN [k \in 1..Len(items) |->
            IF Food_eq(items[k].key, key)
            THEN [key |-> items[k].key, value |-> value]
            ELSE items[k]]
    ELSE Append(items, [key |-> key, value |-> value])

\* faulty variant: quantity and gram_equivalent are exchanged
NutrientReport_nutrient_swapped(food, nutrient) ==
    IF ~HasAll(nutrient, {"nutrient_id", "nutrient", "unit", "value"})
    THEN Err("MissingField")
    ELSE IF ~Has(food, "weight") \/ ~Has(nutrient, "gm")
            \/ ~Has(food, "measure")
    THEN Err("MissingField")
    ELSE LET measure == Measure_init(nutrient["gm"], food["weight"],
                                     food["measure"], nutrient["value"])
         IN IF IsErr(measure) THEN measure
            ELSE Nutrient_init(nutrient["nutrient_id"], nutrient["nutrient"],
                               PyNone, nutrient["unit"], nutrient["value"],
                               <<measure>>)

\* one nutrient of one food of the dict comprehension
NutrientReport_nutrient(food, nutrient) ==
    IF ~HasAll(nutrient, {"nutrient_id", "nutrient", "unit", "value"})
    THEN Err("MissingField")
    ELSE IF ~Has(food, "weight") \/ ~Has(nutrient, "gm")
            \/ ~Has(food, "measure")
    THEN Err("MissingField")
    ELSE LET measure == Measure_init(food["weight"], nutrient["gm"],
                                     food["measure"], nutrient["value"])
         IN IF IsErr(measure) THEN measure
            ELSE Nutrient_init(nutrient["nutrient_id"], nutrient["nutrient"],
                               PyNone, nutrient["unit"], nutrient["value"],
                               <<measure>>)

\* one iteration of the dict comprehension: the key, then the value
NutrientReport_item(food, oid) ==
    LET key == Food_from_response_data(food, oid) IN
    IF IsErr(key) THEN key
    ELSE IF ~Has(food, "nutrients") THEN Err("MissingField")
    ELSE LET value == [j \in 1..Len(food["nutrients"]) |->
                          NutrientReport_nutrient(food, food["nutrients"][j])]
         IN IF AnyErr(value) THEN FirstErr(value)
            ELSE [cls |-> "Item", key |-> key, value |-> value]

RECURSIVE BuildDict(_, _)
BuildDict(items, n) ==
    IF n = 0 THEN <<>>
    ELSE DictPut(BuildDict(items, n - 1), items[n].key, items[n].value)

NutrientReport_from_response_data(response_data, oid) ==
    IF ~Has(response_data, "report") THEN Err("MissingField")
    ELSE LET report == response_data["report"] IN
    IF ~Has(report, "foods") THEN Err("MissingField")
    ELSE LET items == [k \in 1..Len(report["foods"]) |->
                          NutrientReport_item(report["foods"][k],
                                              oid + k - 1)] IN
    IF AnyErr(items) THEN FirstErr(items)
    ELSE NutrientReport_init(BuildDict(items, Len(items)))

(***************************************************************************)
(* Response data handed to the conversions.                                *)
(***************************************************************************)
Restrict(f, S) == [k \in S |-> f[k]]

\* a JSON object over every subset of the keys of the given full objects
Partial(fulls, keys) == {Restrict(f, S) : f \in fulls, S \in SUBSET keys}

SeqsUpTo(S, n) == UNION {[1..k -> S] : k \in 0..n}

Oz == PyStr(<<"o", "z">>)

Full == PyStr(<<"F", "u", "l", "l">>)

LowerBasic == PyStr(<<"b", "a", "s", "i", "c">>)

S07 == PyStr(<<"0", "7">>)

S2p5 == PyStr(<<"2", ".", "5">>)

ScalarVals == {PyInt(1), PyFloat(15), S07, S2p5, Oz, PyNone, PyEmptyList}

MeasureKeys == {"qty", "eqv", "label", "value"}

MeasureInputs == UNION {[S -> ScalarVals] : S \in SUBSET MeasureKeys}

NutrientInputs == UNION {[S -> ScalarVals] : S \in SUBSET {"id", "name"}}

FoodInputs == UNION {[S -> ScalarVals] : S \in SUBSET {"id", "ndbno", "name"}}

\* measures nested in the nutrients of a food report
MeasureA == [qty |-> PyInt(1), eqv |-> PyFloat(15), label |-> Oz,
             value |-> S2p5]

MeasureB == [qty |-> S07, eqv |-> PyInt(1), label |-> PyInt(1),
             value |-> PyFloat(15)]

MeasureSamples == {MeasureA, MeasureB, Restrict(MeasureA, {"qty", "label"})}

RawNutrient(id, group, unit, value, measures) ==
    [nutrient_id |-> id, name |-> Oz, group |-> group, unit |-> unit,
     value |-> value, measures |-> measures]

RawNutrientA == RawNutrient(S07, Oz, Oz, S2p5, <<MeasureA>>)

RawNutrientSamples ==
    {RawNutrient(S07, Oz, Oz, S2p5, ms) :
        ms \in SeqsUpTo(MeasureSamples, MaxMeasures)}
    \cup {RawNutrient(PyInt(1), Oz, Oz, v, <<>>) :
            v \in {PyNone, PyEmptyList, Oz}}
    \cup {RawNutrient(PyInt(1), g, PyNone, PyInt(1), <<>>) :
            g \in {PyNone, PyInt(1)}}
    \cup {RawNutrient(Oz, Oz, Oz, PyInt(1), <<>>)}
    \cup {Restrict(RawNutrientA, NutrientKeys \ {k}) :
            k \in {"value", "measures"}}

ReportFoodKeys == {"id", "ndbno", "name", "fg", "nutrients"}

\* food objects of a food report: every combination of keys over a few
\* values, with short nutrient lists
ShallowReportFoods ==
    Partial({[id |-> i, ndbno |-> S07, name |-> Oz, fg |-> g,
              nutrients |-> ns] :
                i \in {PyInt(1), Oz}, g \in {Oz, PyNone, PyInt(1)},
                ns \in {<<>>, <<RawNutrientA>>}}, ReportFoodKeys)

\* a well-formed food over every nutrient list
DeepReportFoods ==
    {[id |-> PyInt(1), name |-> Oz, fg |-> Oz, nutrients |-> ns] :
        ns \in SeqsUpTo(RawNutrientSamples, MaxNutrients)}

FoodReportInputs ==
    {[k \in {} |-> PyNone]}
    \cup {[report |-> r] :
            r \in Partial({[type |-> t, food |-> f, footnotes |-> PyEmptyList] :
                             t \in {Basic, Statistics, Full},
                             f \in ShallowReportFoods},
                          {"type", "food", "footnotes"})}
    \cup {[report |-> [type |-> t, food |-> f, footnotes |-> Oz]] :
            t \in {Basic, Full}, f \in DeepReportFoods}
    \cup {[report |-> [type |-> t, food |-> f, footnotes |-> Oz]] :
            t \in {LowerBasic, PyNone},
            f \in {Restrict([id |-> PyInt(1), name |-> Oz, fg |-> Oz,
                             nutrients |-> <<RawNutrientA>>], S) :
                     S \in {{"id", "name", "fg", "nutrients"},
                            {"id", "name", "nutrients"}}}}

\* nutrient entries of the foods of a nutrient report
ReportNutrientKeys == {"nutrient_id", "nutrient", "unit", "value", "gm"}

ReportNutrientA == [nutrient_id |-> PyInt(1), nutrient |-> Oz, unit |-> Oz,
                    value |-> S2p5, gm |-> PyFloat(15)]

ReportNutrientB == [nutrient_id |-> S07, nutrient |-> PyInt(1),
                    unit |-> PyNone, value |-> PyInt(1), gm |-> S07]

BadReportNutrients ==
    {Restrict(ReportNutrientA, ReportNutrientKeys \ {"gm"}),
     [ReportNutrientA EXCEPT !["gm"] = Oz],
     [ReportNutrientA EXCEPT !["value"] = PyNone],
     [ReportNutrientA EXCEPT !["value"] = PyEmptyList]}

ReportFoodEntryKeys == {"id", "name", "weight", "measure", "nutrients"}

RawFoodEntry(weight, nutrients) ==
    [id |-> PyInt(1), name |-> Oz, weight |-> weight, measure |-> Oz,
     nutrients |-> nutrients]

ReportFoodEntries ==
    {RawFoodEntry(PyInt(1), ns) :
        ns \in SeqsUpTo({ReportNutrientA, ReportNutrientB}, MaxNutrients)}
    \cup {RawFoodEntry(S2p5, <<ReportNutrientA>>)}
    \cup {[ndbno |-> S07, name |-> Oz, weight |-> PyInt(1), measure |-> Oz,
           nutrients |-> ns] :
            ns \in {<<ReportNutrientA>>, <<ReportNutrientB>>}}
    \cup {Restrict(RawFoodEntry(w, ns), ReportFoodEntryKeys \ S) :
            w \in {PyInt(1), PyNone}, ns \in {<<>>, <<ReportNutrientA>>},
            S \in {{}, {"weight"}, {"measure"}, {"nutrients"}, {"id"}}}
    \cup {RawFoodEntry(PyInt(1), <<n>>) : n \in BadReportNutrients}

NutrientReportInputs ==
    {[k \in {} |-> PyNone], [report |-> [k \in {} |-> PyNone]]}
    \cup {[report |-> [foods |-> fs]] :
            fs \in SeqsUpTo(ReportFoodEntries, MaxFoods)}

\* objects handed directly to the constructor of NutrientReport
FoodObject(oid) == Food_init(PyInt(1), Oz, oid)

NutrientObject == Nutrient_init(PyInt(1), Oz, PyNone, PyNone, PyNone, PyNone)

MeasureObject == Measure_init(PyInt(1), PyInt(1), Oz, PyInt(1))

KeyObjects ==
    {FoodObject(oid) : oid \in 0..MaxFoods}
    \cup {[NutrientObject EXCEPT !.id = PyInt(7)]}

\* the items of a dict: no key occurs twice
MappingInputs ==
    {fs \in SeqsUpTo([key : KeyObjects,
                      value : SeqsUpTo({NutrientObject, MeasureObject},
                                       MaxNutrients)], MaxFoods) :
        \A j, k \in 1..Len(fs) : j # k => fs[j].key # fs[k].key}

(***************************************************************************)
(* The state machine: one call of one operation on one input.              *)
(***************************************************************************)
NoResult == [cls |-> "NoResult"]

Inputs(o) ==
    CASE o = "Measure" -> MeasureInputs
      [] o = "Nutrient" -> NutrientInputs
      [] o = "Food" -> FoodInputs
      [] o = "FoodReport" -> FoodReportInputs
      [] o = "NutrientReport" -> NutrientReportInputs
      [] o = "NutrientReportInit" -> MappingInputs

Ops == {"Measure", "Nutrient", "Food", "FoodReport", "NutrientReport",
        "NutrientReportInit"}

Init ==
    /\ op \in Ops
    /\ arg \in Inputs(op)
    /\ result = NoResult
    /\ pc = "ready"
    /\ nextOid = 0

\* the Food objects a returned object keeps alive
FoodsOf(r) ==
    CASE r.cls = "Food" -> 1
      [] r.cls = "FoodReport" -> 1
      [] r.cls = "NutrientReport" -> Len(r.foods)
      [] OTHER -> 0

CallMeasure ==
    /\ pc = "ready"
    /\ op = "Measure"
    /\ result' = Measure_from_response_data(arg)
    /\ pc' = "done"
    /\ UNCHANGED <<op, arg, nextOid>>

CallNutrient ==
    /\ pc = "ready"
    /\ op = "Nutrient"
    /\ result' = Nutrient_from_response_data(arg)
    /\ pc' = "done"
    /\ UNCHANGED <<op, arg, nextOid>>

CallFood ==
    /\ pc = "ready"
    /\ op = "Food"
    /\ result' = Food_from_response_data(arg, nextOid)
    /\ nextOid' = nextOid + FoodsOf(result')
    /\ pc' = "done"
    /\ UNCHANGED <<op, arg>>

CallFoodReport ==
    /\ pc = "ready"
    /\ op = "FoodReport"
    /\ result' = FoodReport_from_response_data(arg, nextOid)
    /\ nextOid' = nextOid + FoodsOf(result')
    /\ pc' = "done"
    /\ UNCHANGED <<op, arg>>

CallNutrientReport ==
    /\ pc = "ready"
    /\ op = "NutrientReport"
    /\ result' = NutrientReport_from_response_data(arg, nextOid)
    /\ nextOid' = nextOid + FoodsOf(result')
    /\ pc' = "done"
    /\ UNCHANGED <<op, arg>>

\* NutrientReport(foods) on a mapping of objects that already exist
NewNutrientReport ==
    /\ pc = "ready"
    /\ op = "NutrientReportInit"
    /\ result' = NutrientReport_init(arg)
    /\ pc' = "done"
    /\ UNCHANGED <<op, arg, nextOid>>

Next ==
    \/ CallMeasure
    \/ CallNutrient
    \/ CallFood
    \/ CallFoodReport
    \/ CallNutrientReport
    \/ NewNutrientReport

Spec == Init /\ [][Next]_vars

Done(o) == pc = "done" /\ op = o

(***************************************************************************)
(* Properties of the input, stated on the JSON alone.                      *)
(***************************************************************************)
\* a key the conversion reads is absent
FoodKeyMissing(f) == (~Has(f, "id") /\ ~Has(f, "ndbno")) \/ ~Has(f, "name")

RawNutrientKeyMissing(n) ==
    \/ \E k \in {"nutrient_id", "name", "group", "unit", "value", "measures"} :
          ~Has(n, k)
    \/ /\ Has(n, "measures")
       /\ \E j \in 1..Len(n["measures"]) :
             \E k \in {"qty", "eqv", "label", "value"} :
                ~Has(n["measures"][j], k)

FoodReportKeyMissing(d) ==
    \/ ~Has(d, "report")
    \/ \E k \in {"type", "food", "footnotes"} : ~Has(d["report"], k)
    \/ /\ Has(d["report"], "food")
       /\ LET f == d["report"]["food"] IN
          \/ FoodKeyMissing(f)
          \/ ~Has(f, "nutrients")
          \/ /\ Has(d["report"], "type")
             /\ d["report"]["type"] # Basic
             /\ d["report"]["type"] # Statistics
             /\ ~Has(f, "fg")
          \/ /\ Has(f, "nutrients")
             /\ \E k \in 1..Len(f["nutrients"]) :
                   RawNutrientKeyMissing(f["nutrients"][k])

FoodEntryKeyMissing(f) ==
    \/ FoodKeyMissing(f)
    \/ ~Has(f, "nutrients")
    \/ /\ Has(f, "nutrients")
       /\ Len(f["nutrients"]) > 0
       /\ \/ ~Has(f, "weight")
          \/ ~Has(f, "measure")
          \/ \E j \in 1..Len(f["nutrients"]) :
                \E k \in {"nutrient_id", "nutrient", "unit", "value", "gm"} :
                   ~Has(f["nutrients"][j], k)

NutrientReportKeyMissing(d) ==
    \/ ~Has(d, "report")
    \/ ~Has(d["report"], "foods")
    \/ \E k \in 1..Len(d["report"]["foods"]) :
          FoodEntryKeyMissing(d["report"]["foods"][k])

KeyMissing(o, d) ==
    CASE o = "Measure" ->
            \E k \in {"qty", "eqv", "label", "value"} : ~Has(d, k)
      [] o = "Nutrient" -> ~Has(d, "id") \/ ~Has(d, "name")
      [] o = "Food" -> FoodKeyMissing(d)
      [] o = "FoodReport" -> FoodReportKeyMissing(d)
      [] o = "NutrientReport" -> NutrientReportKeyMissing(d)
      [] OTHER -> FALSE

\* a value that is present and read cannot be coerced to the type of its field
BadFloat(d, k) == Has(d, k) /\ ~CanFloat(d[k])

BadInt(d, k) == Has(d, k) /\ ~CanInt(d[k])

FoodUncoercible(f) ==
    BadInt(f, "id") \/ (~Has(f, "id") /\ BadInt(f, "ndbno"))

MeasureUncoercible(m) ==
    BadFloat(m, "qty") \/ BadFloat(m, "eqv") \/ BadFloat(m, "value")

RawNutrientUncoercible(n) ==
    \/ BadInt(n, "nutrient_id")
    \/ BadFloat(n, "value")
    \/ /\ Has(n, "measures")
       /\ \E j \in 1..Len(n["measures"]) :
             MeasureUncoercible(n["measures"][j])

FoodReportUncoercible(d) ==
    /\ Has(d, "report")
    /\ Has(d["report"], "food")
    /\ LET f == d["report"]["food"] IN
       \/ FoodUncoercible(f)
       \/ /\ Has(f, "nutrients")
          /\ \E k \in 1..Len(f["nutrients"]) :
                RawNutrientUncoercible(f["nutrients"][k])

FoodEntryUncoercible(f) ==
    \/ FoodUncoercible(f)
    \/ /\ Has(f, "nutrients")
       /\ Len(f["nutrients"]) > 0
       /\ \/ BadFloat(f, "weight")
          \/ \E j \in 1..Len(f["nutrients"]) :
                \/ BadInt(f["nutrients"][j], "nutrient_id")
                \/ BadFloat(f["nutrients"][j], "value")
                \/ BadFloat(f["nutrients"][j], "gm")

NutrientReportUncoercible(d) ==
    /\ Has(d, "report")
    /\ Has(d["report"], "foods")
    /\ \E k \in 1..Len(d["report"]["foods"]) :
          FoodEntryUncoercible(d["report"]["foods"][k])

Uncoercible(o, d) ==
    CASE o = "Measure" -> MeasureUncoercible(d)
      [] o = "Nutrient" -> BadInt(d, "id")
      [] o = "Food" -> FoodUncoercible(d)
      [] o = "FoodReport" -> FoodReportUncoercible(d)
      [] o = "NutrientReport" -> NutrientReportUncoercible(d)
      [] OTHER -> FALSE

\* x is the string field built from the JSON value v (None stays unset)
IsStrOf(x, v) == IF v = PyNone THEN x = PyNone ELSE x = StrOf(v)

\* x is the float field built from the JSON value v (None stays unset)
IsFloatOf(x, v) == IF v = PyNone THEN x = PyNone ELSE x = FloatOf(v)

ReportType == arg["report"]["type"]

ReportFood == arg["report"]["food"]

TypedFoodReport ==
    /\ Done("FoodReport")
    /\ Has(arg, "report")
    /\ Has(arg["report"], "type")
    /\ Has(arg["report"], "food")

(***************************************************************************)
(* C1: for a food report whose type is neither "Basic" nor "Statistics",   *)
(* the returned report's food_group is the fg value of report.food, and    *)
(* when fg is absent the construction fails and no report is returned.     *)
(***************************************************************************)
C1_FoodGroupFromFg ==
    (TypedFoodReport /\ ReportType # Basic /\ ReportType # Statistics) =>
        /\ ~Has(ReportFood, "fg") => IsErr(result)
        /\ ~IsErr(result) => IsStrOf(result.food_group, ReportFood["fg"])

C1_Witness ==
    /\ TypedFoodReport
    /\ ReportType = Full
    /\ Has(ReportFood, "fg")
    /\ ~IsErr(result)
    /\ result.food_group = Oz

(***************************************************************************)
(* C2: for a food report of type "Basic" or "Statistics" the food_group    *)
(* of the returned report is unset whether or not fg is present, and fg    *)
(* is not required: an input whose other keys are present and whose        *)
(* values are coercible yields a report.                                   *)
(***************************************************************************)
C2_NoFoodGroupForBasicStatistics ==
    (TypedFoodReport /\ ReportType \in {Basic, Statistics}) =>
        /\ ~IsErr(result) => result.food_group = PyNone
        /\ (~FoodReportKeyMissing(arg) /\ ~FoodReportUncoercible(arg))
              => ~IsErr(result)

C2_Witness ==
    /\ TypedFoodReport
    /\ ReportType = Statistics
    /\ Has(ReportFood, "fg")
    /\ ReportFood["fg"] = Oz
    /\ ~IsErr(result)
    /\ result.food_group = PyNone

(***************************************************************************)
(* C3 as stated: whenever a required key is absent at any nesting level,   *)
(* the call fails with a missing-field failure.                            *)
(***************************************************************************)
C3_Original_MissingKeyIsMissingField ==
    (pc = "done" /\ KeyMissing(op, arg)) => result = Err("MissingField")

(***************************************************************************)
(* C3 amended: whenever a key the conversion reads is absent at any        *)
(* nesting level, the call fails and returns no object; the failure is a   *)
(* missing-field failure when no present value is uncoercible.             *)
(***************************************************************************)
C3_MissingKeyFails ==
    (pc = "done" /\ KeyMissing(op, arg)) =>
        /\ IsErr(result)
        /\ ~Uncoercible(op, arg) => result = Err("MissingField")

C3_Witness ==
    /\ Done("FoodReport")
    /\ Has(arg, "report")
    /\ Has(arg["report"], "food")
    /\ Has(ReportFood, "nutrients")
    /\ \E k \in 1..Len(ReportFood["nutrients"]) :
          LET n == ReportFood["nutrients"][k] IN
          /\ Has(n, "measures")
          /\ \E j \in 1..Len(n["measures"]) : ~Has(n["measures"][j], "eqv")
    /\ result = Err("MissingField")

(***************************************************************************)
(* C4: a Food built from JSON with id and name has id = int(id); built     *)
(* from JSON with ndbno and no id it has id = int(ndbno); ndbno is read    *)
(* only when the key id is absent.                                         *)
(***************************************************************************)
C4_FoodIdFromIdThenNdbno ==
    (Done("Food") /\ Has(arg, "name")) =>
        /\ (Has(arg, "id") /\ CanInt(arg["id"])) =>
              ~IsErr(result) /\ result.id = IntOf(arg["id"])
        /\ (Has(arg, "id") /\ ~CanInt(arg["id"])) => IsErr(result)
        /\ (~Has(arg, "id") /\ Has(arg, "ndbno") /\ CanInt(arg["ndbno"])) =>
              ~IsErr(result) /\ result.id = IntOf(arg["ndbno"])

C4_Witness ==
    /\ Done("Food")
    /\ ~Has(arg, "id")
    /\ Has(arg, "ndbno")
    /\ arg["ndbno"] = S07
    /\ ~IsErr(result)
    /\ result.id = PyInt(7)

RawFoods == arg["report"]["foods"]

(***************************************************************************)
(* C5: every Nutrient of a NutrientReport built from response data carries *)
(* exactly one Measure, whose quantity is the owning food entry's weight,  *)
(* whose gram_equivalent is the nutrient entry's gm, whose label is the    *)
(* food entry's measure and whose value is the nutrient entry's value.     *)
(***************************************************************************)
C5_SynthesizedMeasure ==
    (Done("NutrientReport") /\ ~IsErr(result)) =>
        \A k \in 1..Len(result.foods) :
            LET nutrients == result.foods[k].value
                f == RawFoods[k]
            IN /\ Len(nutrients) = Len(f["nutrients"])
               /\ \A j \in 1..Len(nutrients) :
                     LET n == f["nutrients"][j]
                         ms == nutrients[j].measures
                     IN /\ Len(ms) = 1
                        /\ ms[1].cls = "Measure"
                        /\ ms[1].quantity = FloatOf(f["weight"])
                        /\ ms[1].gram_equivalent = FloatOf(n["gm"])
                        /\ ms[1].label = StrOf(f["measure"])
                        /\ ms[1].value = FloatOf(n["value"])

C5_Witness ==
    /\ Done("NutrientReport")
    /\ ~IsErr(result)
    /\ Len(result.foods) = 2
    /\ \E k \in 1..2 : \E j \in 1..Len(result.foods[k].value) :
          LET m == result.foods[k].value[j].measures[1] IN
          /\ m.quantity = PyFloat(10)
          /\ m.gram_equivalent = PyFloat(70)
          /\ m.value = PyFloat(10)
          /\ RawFoods[k]["nutrients"][j]["gm"] = S07

(***************************************************************************)
(* C6 as stated: every from_response_data fails whenever a value that is   *)
(* present and read cannot be coerced to the numeric type of its field;    *)
(* no default, not even an unset field, is substituted.                    *)
(***************************************************************************)
C6_UncoercibleValueFails ==
    (pc = "done" /\ Uncoercible(op, arg)) => IsErr(result)

(***************************************************************************)
(* C7: a NutrientReport exists only over a mapping whose keys are all Food *)
(* and whose value elements are all Nutrient; constructing one from any    *)
(* other mapping fails with a type-invariant failure; the mapping built by *)
(* NutrientReport.from_response_data always passes the check.              *)
(***************************************************************************)
WellTyped(foods) ==
    \A k \in 1..Len(foods) :
        /\ foods[k].key.cls = "Food"
        /\ \A j \in 1..Len(foods[k].value) :
              foods[k].value[j].cls = "Nutrient"

C7_NutrientReportTypeInvariant ==
    /\ Done("NutrientReportInit") =>
          IF WellTyped(arg)
          THEN result = [cls |-> "NutrientReport", foods |-> arg]
          ELSE result = Err("TypeInvariant")
    /\ Done("NutrientReport") =>
          /\ result # Err("TypeInvariant")
          /\ ~IsErr(result) => WellTyped(result.foods)

C7_Witness ==
    /\ Done("NutrientReportInit")
    /\ Len(arg) = 2
    /\ \A k \in 1..2 : arg[k].key.cls = "Food"
    /\ \E k \in 1..2 : \E j \in 1..Len(arg[k].value) :
          arg[k].value[j].cls = "Measure"
    /\ result = Err("TypeInvariant")

(***************************************************************************)
(* C8: a Measure built from JSON with qty, eqv, label and value has        *)
(* quantity, gram_equivalent, label and value equal to the coerced qty,    *)
(* eqv, label and value of the input, each field from its own key.         *)
(***************************************************************************)
C8_MeasureFields ==
    (Done("Measure") /\ ~KeyMissing("Measure", arg)
       /\ ~MeasureUncoercible(arg)) =>
        /\ ~IsErr(result)
        /\ result.cls = "Measure"
        /\ result.quantity = FloatOf(arg["qty"])
        /\ result.gram_equivalent = FloatOf(arg["eqv"])
        /\ result.label = StrOf(arg["label"])
        /\ result.value = FloatOf(arg["value"])

C8_Witness ==
    /\ Done("Measure")
    /\ ~IsErr(result)
    /\ arg["qty"] = PyInt(1)
    /\ arg["eqv"] = S2p5
    /\ arg["label"] = PyFloat(15)
    /\ arg["value"] = S07
    /\ result.quantity = PyFloat(10)
    /\ result.gram_equivalent = PyFloat(25)
    /\ result.label = PyStr(<<"1", ".", "5">>)
    /\ result.value = PyFloat(70)

(***************************************************************************)
(* C9: the foods mapping of a NutrientReport built from response data has  *)
(* one key per raw food entry, in order: entries with the same id and name *)
(* do not collide, and every entry keeps its own nutrient sequence.        *)
(***************************************************************************)
C9_OneKeyPerFoodEntry ==
    (Done("NutrientReport") /\ ~IsErr(result)) =>
        /\ Len(result.foods) = Len(RawFoods)
        /\ \A j, k \in 1..Len(result.foods) :
              j # k => result.foods[j].key.oid # result.foods[k].key.oid
        /\ \A k \in 1..Len(result.foods) :
              /\ Len(result.foods[k].value) = Len(RawFoods[k]["nutrients"])
              /\ \A j \in 1..Len(result.foods[k].value) :
                    result.foods[k].value[j].id
                        = IntOf(RawFoods[k]["nutrients"][j]["nutrient_id"])

C9_Witness ==
    /\ Done("NutrientReport")
    /\ ~IsErr(result)
    /\ Len(RawFoods) = 2
    /\ Len(result.foods) = 2
    /\ result.foods[1].key.id = result.foods[2].key.id
    /\ result.foods[1].key.name = result.foods[2].key.name
    /\ result.foods[1].value # result.foods[2].value

(***************************************************************************)
(* C10: the nutrients of a FoodReport have the length and order of         *)
(* report.food.nutrients, the i-th Nutrient being built from the i-th raw  *)
(* entry and its j-th Measure from that entry's j-th raw measure;          *)
(* report.footnotes is stored unchanged.                                   *)
(***************************************************************************)
C10_NutrientsInOrder ==
    (Done("FoodReport") /\ ~IsErr(result)) =>
        LET raw == ReportFood["nutrients"] IN
        /\ result.foot_notes = arg["report"]["footnotes"]
        /\ Len(result.nutrients) = Len(raw)
        /\ \A k \in 1..Len(raw) :
              LET n == result.nutrients[k] IN
              /\ n.cls = "Nutrient"
              /\ n.id = IntOf(raw[k]["nutrient_id"])
              /\ n.name = StrOf(raw[k]["name"])
              /\ IsStrOf(n.group, raw[k]["group"])
              /\ IsStrOf(n.unit, raw[k]["unit"])
              /\ IsFloatOf(n.value, raw[k]["value"])
              /\ Len(n.measures) = Len(raw[k]["measures"])
              /\ \A j \in 1..Len(n.measures) :
                    LET m == n.measures[j]
                        r == raw[k]["measures"][j]
                    IN /\ m.cls = "Measure"
                       /\ m.quantity = FloatOf(r["qty"])
                       /\ m.gram_equivalent = FloatOf(r["eqv"])
                       /\ m.label = StrOf(r["label"])
                       /\ m.value = FloatOf(r["value"])

C10_Witness ==
    /\ Done("FoodReport")
    /\ ~IsErr(result)
    /\ Len(result.nutrients) = 2
    /\ result.nutrients[1].id # result.nutrients[2].id
    /\ \E k \in 1..2 :
          /\ Len(result.nutrients[k].measures) = 2
          /\ result.nutrients[k].measures[1] # result.nutrients[k].measures[2]

====
